---- MODULE Spec2Model ----
(***************************************************************************)
(* Model of the SQL query comparison backend: the /api/compare handler     *)
(* (routes/compare.py) with the comparison engine compare_queries          *)
(* (services/comparator.py), and the /api/execute-query handler            *)
(* (routes/query.py) with validate_sql (utils/validator.py) and            *)
(* get_db_connection (database/db.py), and the /api/test-connection        *)
(* handler (routes/connection.py), which stores the connection parameters  *)
(* in the session the other two read.  A result set is a frame: an         *)
(* ordered list of column names and an ordered list of rows, each row a    *)
(* function from column name to a scalar.  The pandas operations the       *)
(* engine calls (read_sql, rename, merge, head, iterrows) are modelled by  *)
(* what they do to such frames, dtype inference and upcasting included.    *)
(***************************************************************************)
EXTENDS Integers, Sequences, FiniteSets, TLC

VARIABLES
    session,         \* session.get('db_connection'): the parameters, or None
    history,         \* the requests of the session so far, each with the
                     \* parameters get_db_connection was called with
    executed,        \* the query texts handed to the database, in order
    request,         \* JSON payload of the request
    db,              \* what the database answers: q1 and q2 to the texts of a
                     \* comparison, q to the text of /api/execute-query
    pc,              \* position of the handler
    conn,            \* the pyodbc connection: "none", "open", "closed"
    df1, df2,        \* frames read by pd.read_sql (df1 also: the rows fetched
                     \* by /api/execute-query)
    mapping_dict,    \* dict built from the mappings
    df2_renamed,     \* df2 after rename(columns = mapping_dict)
    common_columns,  \* columns of df1 that are columns of df2_renamed
    join_keys,       \* the keys handed to pd.merge
    merged,          \* the outer join, one entry per output row
    mismatches,      \* the mismatch records
    response,        \* the HTTP response of the handler
    trace            \* the stages that have completed, in order

vars == <<session, history, executed, request, db, pc, conn, df1, df2, mapping_dict, df2_renamed,
          common_columns, join_keys, merged, mismatches, response, trace>>

-----------------------------------------------------------------------------
(* Bounds of the model *)

\* rows per result set in the small specification
MaxRows == 2
\* rows per side that share one key in the large specification
BigGroup == 11
\* one-sided rows per side in the large specification
BigRows == 101

(* Program constants *)

\* head(100) and [:100]
PreviewBound == 100

-----------------------------------------------------------------------------
(* Scalars: Python values as the driver and pandas hand them out *)

PyInt(n) == [t |-> "int", n |-> n, s |-> ""]
PyFloat(n) == [t |-> "float", n |-> n, s |-> ""]
PyText(s) == [t |-> "str", n |-> 0, s |-> s]
None == [t |-> "None", n |-> 0, s |-> ""]
NaN == [t |-> "nan", n |-> 0, s |-> ""]

IsNull(v) == v.t \in {"None", "nan"}
IsNumber(v) == v.t \in {"int", "float"}

\* Python's str() on a scalar
str(v) ==
    CASE v.t = "int" -> ToString(v.n)
      [] v.t = "float" -> ToString(v.n) \o ".0"
      [] v.t = "str" -> v.s
      [] v.t = "None" -> "None"
      [] v.t = "nan" -> "nan"

-----------------------------------------------------------------------------
(* Sequence helpers *)

Range(s) == {s[i] : i \in 1..Len(s)}

Min(a, b) == IF a <= b THEN a ELSE b

\* s[:n]
Prefix(s, n) == SubSeq(s, 1, Min(n, Len(s)))

\* the concatenation of ss[lo], ..., ss[hi]
RECURSIVE FlattenRange(_, _, _)
FlattenRange(ss, lo, hi) ==
    IF lo > hi THEN <<>>
    ELSE IF lo = hi THEN ss[lo]
    ELSE LET mid == (lo + hi) \div 2
         IN  FlattenRange(ss, lo, mid) \o FlattenRange(ss, mid + 1, hi)

Flatten(ss) == FlattenRange(ss, 1, Len(ss))

\* the elements of a set, in some order
RECURSIVE SetToSeq(_)
SetToSeq(S) ==
    IF S = {} THEN <<>>
    ELSE LET x == CHOOSE x \in S : TRUE IN <<x>> \o SetToSeq(S \ {x})

\* row[c], with NaN where the row has no such column
Get(row, c) == IF c \in DOMAIN row THEN row[c] ELSE NaN

NoFrame == [columns |-> <<>>, rows |-> <<>>]

-----------------------------------------------------------------------------
(* pd.read_sql: the frame of a result set, with pandas' dtype inference *)

ColumnValues(rows, c) == {Get(rows[i], c) : i \in 1..Len(rows)}

\* an integer column holding a NULL becomes float64, its NULLs NaN
IsFloatColumn(rows, c) ==
    /\ \E v \in ColumnValues(rows, c) : IsNumber(v)
    /\ \E v \in ColumnValues(rows, c) : IsNull(v) \/ v.t = "float"

AsFloat(v) ==
    CASE v.t = "int" -> PyFloat(v.n)
      [] v.t = "None" -> NaN
      [] OTHER -> v

read_sql(result) ==
    [columns |-> result.columns,
     rows |-> [i \in 1..Len(result.rows) |->
                 [c \in DOMAIN result.rows[i] |->
                    IF IsFloatColumn(result.rows, c)
                    THEN AsFloat(result.rows[i][c])
                    ELSE result.rows[i][c]]]]

-----------------------------------------------------------------------------
(* Column mapping *)

\* mapping_dict[m['left']] = m['right'], a later pair overwriting an earlier
RECURSIVE build_mapping_dict(_)
build_mapping_dict(mappings) ==
    IF mappings = <<>> THEN << >>
    ELSE LET n == Len(mappings)
             m == mappings[n]
             before == build_mapping_dict(SubSeq(mappings, 1, n - 1))
         IN  [k \in (DOMAIN before) \cup {m.left} |->
                IF k = m.left THEN m.right ELSE before[k]]

\* m['left'] or m['right'] raises KeyError: a pair without that entry
MappingRaises(mappings) ==
    \E n \in 1..Len(mappings) : ~({"left", "right"} \subseteq DOMAIN mappings[n])

\* the name rename(columns = d) gives a column
Renamed(d, c) == IF c \in DOMAIN d THEN d[c] ELSE c

\* rename as a selection of the mapped columns would have it: a column
\* the dictionary does not name is dropped
rename_mapped_only(df, d) ==
    LET kept == SelectSeq(df.columns, LAMBDA c : c \in DOMAIN d)
        cols == [i \in 1..Len(kept) |-> d[kept[i]]]
        old(c) == CHOOSE o \in Range(kept) : d[o] = c
    IN  [columns |-> cols,
         rows |-> [i \in 1..Len(df.rows) |->
                     [c \in Range(cols) |-> df.rows[i][old(c)]]]]

\* rename as a relabelling that keeps a place for every name of the
\* dictionary would have it: a name of d that is no column of df gives a
\* new column, without values
rename_adding_missing(df, d) ==
    LET cols == [i \in 1..Len(df.columns) |-> Renamed(d, df.columns[i])]
        old(c) == CHOOSE o \in Range(df.columns) : Renamed(d, o) = c
        added == SelectSeq(SetToSeq({d[k] : k \in (DOMAIN d) \ Range(df.columns)}),
                           LAMBDA c : c \notin Range(cols))
    IN  [columns |-> cols \o added,
         rows |-> [i \in 1..Len(df.rows) |->
                     [c \in Range(cols) \cup Range(added) |->
                        IF c \in Range(cols) THEN df.rows[i][old(c)] ELSE NaN]]]

\* DataFrame.rename(columns = d)
rename(df, d) ==
    LET cols == [i \in 1..Len(df.columns) |-> Renamed(d, df.columns[i])]
        old(c) == CHOOSE o \in Range(df.columns) : Renamed(d, o) = c
    IN  [columns |-> cols,
         rows |-> [i \in 1..Len(df.rows) |->
                     [c \in Range(cols) |-> df.rows[i][old(c)]]]]

\* CommonColumns as a loop over the right frame's columns would have it
CommonColumnsRightOrder(left, right) ==
    SelectSeq(right.columns, LAMBDA c : c \in Range(left.columns))

\* [col for col in df1.columns if col in df2_renamed.columns]
CommonColumns(left, right) ==
    SelectSeq(left.columns, LAMBDA c : c \in Range(right.columns))

\* primary_keys if primary_keys else common_columns[:1]
JoinKeys(primary_keys, common) ==
    IF primary_keys # <<>> THEN primary_keys ELSE Prefix(common, 1)

-----------------------------------------------------------------------------
(* pd.merge(df1, df2_renamed, on = join_keys, how = 'outer',               *)
(*          suffixes = ('_query1', '_query2'), indicator = True)           *)

\* the order in which text sorts
StrOrder == <<"A", "B", "C", "D", "None">>

StrRank(s) == CHOOSE i \in 1..Len(StrOrder) : StrOrder[i] = s

\* the position of a non-null key value in the sort order of its column
KeyRank(v) == IF IsNumber(v) THEN v.n ELSE IF v.t = "str" THEN StrRank(v.s) ELSE 0

SetMax(S) == CHOOSE x \in S : \A y \in S : y <= x
SetMin(S) == CHOOSE x \in S : \A y \in S : x <= y

\* a key tuple as one number, ordered as the tuples are ordered
\* lexicographically; a null takes the rank top, after every value, and
\* equals the null of any other row
RECURSIVE KeyCode(_, _, _)
KeyCode(row, on, top) ==
    IF on = <<>> THEN 0
    ELSE LET n == Len(on)
             v == Get(row, on[n])
             r == IF IsNull(v) THEN top ELSE KeyRank(v)
         IN  KeyCode(row, SubSeq(on, 1, n - 1), top) * (top + 1) + r

\* the kind of a key column
HasNumber(df, c) == \E v \in ColumnValues(df.rows, c) : IsNumber(v)
HasText(df, c) == \E v \in ColumnValues(df.rows, c) : v.t = "str"

\* what pandas infers a key column to hold: a frame without rows and a
\* column of text or of nothing but None are of dtype object
Inferred(df, c) ==
    IF df.rows = <<>> THEN "empty"
    ELSE IF HasText(df, c) THEN "string"
    ELSE IF \E v \in ColumnValues(df.rows, c) : v.t \in {"float", "nan"} THEN "floating"
    ELSE IF HasNumber(df, c) THEN "integer"
    ELSE "mixed"

IsObject(kind) == kind \in {"empty", "string", "mixed"}

\* merge refuses an object key column against a numeric one, unless the
\* object column is empty and the numeric one holds integers
Incompatible(a, b) ==
    /\ IsObject(a) # IsObject(b)
    /\ ~({a, b} \subseteq {"integer", "empty"})

\* MergeRaises as a check of the left frame alone would have it
MergeRaisesLeftOnly(left, right, on) ==
    \/ on = <<>>
    \/ \E k \in Range(on) : k \notin Range(left.columns)

\* merge raises: no key at all, a key that is no column of a side
\* (KeyError), or key columns of incompatible dtypes (ValueError)
MergeRaises(left, right, on) ==
    \/ on = <<>>
    \/ \E k \in Range(on) :
          \/ k \notin Range(left.columns)
          \/ k \notin Range(right.columns)
          \/ Incompatible(Inferred(left, k), Inferred(right, k))

\* the name a column of one side takes in the result
MergedName(c, on, other, suffix) ==
    IF c \notin Range(on) /\ c \in Range(other.columns) THEN c \o suffix ELSE c

\* one output row of the join: left row i and right row j (0: absent)
MergedRow(left, right, on, i, j, tag) ==
    LET lname(c) == MergedName(c, on, right, "_query1")
        rname(c) == MergedName(c, on, left, "_query2")
        lcols == Range(left.columns)
        rcols == Range(right.columns) \ Range(on)
        names == {lname(c) : c \in lcols} \cup {rname(c) : c \in rcols}
                     \cup {"_merge"}
    IN  [m \in names |->
           IF m = "_merge" THEN PyText(tag)
           ELSE IF \E c \in lcols : lname(c) = m
           THEN LET c == CHOOSE c \in lcols : lname(c) = m
                IN  IF i # 0 THEN Get(left.rows[i], c)
                    ELSE IF c \in Range(on) THEN Get(right.rows[j], c)
                    ELSE NaN
           ELSE LET c == CHOOSE c \in rcols : rname(c) = m
                IN  IF j # 0 THEN Get(right.rows[j], c) ELSE NaN]

\* a column that received a NaN next to integers is float64 in the result
Upcast(entries) ==
    LET rows == [e \in 1..Len(entries) |-> entries[e].row]
        names == IF entries = <<>> THEN {} ELSE DOMAIN entries[1].row
        float == {c \in names : IsFloatColumn(rows, c)}
    IN  [e \in 1..Len(entries) |->
           [entries[e] EXCEPT !.row =
              [c \in names |-> IF c \in float THEN AsFloat(rows[e][c])
                               ELSE rows[e][c]]]]

\* JoinGroup as a left join would have it: a key of the right side only
\* gives no row
JoinGroupLeftJoin(left, right, on, L, R) ==
    IF L = <<>> THEN <<>>
    ELSE IF R = <<>>
    THEN [p \in 1..Len(L) |->
            [l |-> L[p], r |-> 0,
             row |-> MergedRow(left, right, on, L[p], 0, "left_only")]]
    ELSE [p \in 1..(Len(L) * Len(R)) |->
            LET i == L[((p - 1) \div Len(R)) + 1]
                j == R[((p - 1) % Len(R)) + 1]
            IN  [l |-> i, r |-> j,
                 row |-> MergedRow(left, right, on, i, j, "both")]]

\* JoinGroup as a lookup of the first match would have it: a left row
\* is paired with the first right row of its key alone
JoinGroupFirstMatch(left, right, on, L, R) ==
    IF R = <<>>
    THEN [p \in 1..Len(L) |->
            [l |-> L[p], r |-> 0,
             row |-> MergedRow(left, right, on, L[p], 0, "left_only")]]
    ELSE IF L = <<>>
    THEN [p \in 1..Len(R) |->
            [l |-> 0, r |-> R[p],
             row |-> MergedRow(left, right, on, 0, R[p], "right_only")]]
    ELSE [p \in 1..Len(L) |->
            [l |-> L[p], r |-> R[1],
             row |-> MergedRow(left, right, on, L[p], R[1], "both")]]

\* the output rows of one key group, L and R the left and the right rows
\* of that key: a key on one side only gives its rows alone, a key on
\* both sides gives every combination of a left row and a right row
JoinGroup(left, right, on, L, R) ==
    IF R = <<>>
    THEN [p \in 1..Len(L) |->
            [l |-> L[p], r |-> 0,
             row |-> MergedRow(left, right, on, L[p], 0, "left_only")]]
    ELSE IF L = <<>>
    THEN [p \in 1..Len(R) |->
            [l |-> 0, r |-> R[p],
             row |-> MergedRow(left, right, on, 0, R[p], "right_only")]]
    ELSE [p \in 1..(Len(L) * Len(R)) |->
            LET i == L[((p - 1) \div Len(R)) + 1]
                j == R[((p - 1) % Len(R)) + 1]
            IN  [l |-> i, r |-> j,
                 row |-> MergedRow(left, right, on, i, j, "both")]]

\* the full outer join: the key groups in sorted order, nulls last
merge(left, right, on) ==
    LET nl == Len(left.rows)
        nr == Len(right.rows)
        ranks == {KeyRank(Get(left.rows[i], on[k])) :
                      i \in 1..nl, k \in 1..Len(on)}
                 \cup {KeyRank(Get(right.rows[j], on[k])) :
                      j \in 1..nr, k \in 1..Len(on)}
        top == 1 + SetMax(ranks \cup {0})
        lcode == [i \in 1..nl |-> KeyCode(left.rows[i], on, top)]
        rcode == [j \in 1..nr |-> KeyCode(right.rows[j], on, top)]
        codes == Range(lcode) \cup Range(rcode)
        lo == SetMin(codes)
        ordered == IF codes = {} THEN <<>>
                   ELSE SelectSeq([k \in 1..(SetMax(codes) - lo + 1) |-> lo + k - 1],
                                  LAMBDA k : k \in codes)
        group(k) ==
            JoinGroup(left, right, on,
                      SelectSeq([i \in 1..nl |-> i], LAMBDA i : lcode[i] = k),
                      SelectSeq([j \in 1..nr |-> j], LAMBDA j : rcode[j] = k))
    IN  Upcast(Flatten([g \in 1..Len(ordered) |-> group(ordered[g])]))

\* merged[merged['_merge'] == tag]
Category(m, tag) == SelectSeq(m, LAMBDA e : e.row["_merge"] = PyText(tag))

-----------------------------------------------------------------------------
(* The diff of the matched rows *)

\* the columns of one matched row whose two values differ as strings
row_mismatches(row, common, keys) ==
    LET differing == {c \in Range(common) \ Range(keys) :
                        str(Get(row, c \o "_query1")) # str(Get(row, c \o "_query2"))}
    IN  [c \in differing |-> [query1 |-> Get(row, c \o "_query1"),
                              query2 |-> Get(row, c \o "_query2")]]

\* for idx, row in matches.iterrows(): ... mismatches.append(...)
find_mismatches(matches, common, keys) ==
    Flatten([i \in 1..Len(matches) |->
               LET d == row_mismatches(matches[i].row, common, keys)
               IN  IF DOMAIN d # {}
                   THEN <<[key |-> [k \in Range(keys) |-> Get(matches[i].row, k)],
                           differences |-> d]>>
                   ELSE <<>>])

-----------------------------------------------------------------------------
(* The report *)

\* head as to_dict('records') without head(100) would have it
head_untruncated(entries) == [i \in 1..Len(entries) |-> entries[i].row]

\* frame.head(100).to_dict('records')
head(entries) == [i \in 1..Min(PreviewBound, Len(entries)) |-> entries[i].row]

\* the dictionary compare_queries returns (execution_time left out)
build_report(left, right, common, m, mm) ==
    [summary |-> [total_rows_query1 |-> Len(left.rows),
                  total_rows_query2 |-> Len(right.rows),
                  matches |-> Len(Category(m, "both")),
                  only_in_query1 |-> Len(Category(m, "left_only")),
                  only_in_query2 |-> Len(Category(m, "right_only")),
                  mismatches |-> Len(mm)],
     matches |-> head(Category(m, "both")),
     only_in_query1 |-> head(Category(m, "left_only")),
     only_in_query2 |-> head(Category(m, "right_only")),
     mismatches |-> Prefix(mm, PreviewBound),
     columns |-> [query1 |-> left.columns,
                  query2 |-> right.columns,
                  mapped |-> common]]

NoResponse == [status |-> 0]

-----------------------------------------------------------------------------
(* Query texts and validate_sql (utils/validator.py) *)

\* a query text: its statements, each given by its first token as written,
\* and the select list of the result set it returns
Query(statements, columns) == [statements |-> statements, columns |-> columns]

\* a text of one SELECT statement
Select(cols) == Query(<<"SELECT">>, cols)

\* value.upper()
Upper(token) ==
    CASE token = "select" -> "SELECT"
      [] token = "Select" -> "SELECT"
      [] token = "delete" -> "DELETE"
      [] token = "with" -> "WITH"
      [] OTHER -> token

\* validate_sql: parsed[0].token_first() is the first token of the first
\* statement (the empty token: a statement of whitespace alone)
validate_sql(query) ==
    IF query.statements = <<>>
    THEN [is_valid |-> FALSE, error |-> PyText("Empty query")]
    ELSE IF query.statements[1] = "" \/ Upper(query.statements[1]) # "SELECT"
    THEN [is_valid |-> FALSE, error |-> PyText("Only SELECT queries are supported")]
    ELSE [is_valid |-> TRUE, error |-> None]

-----------------------------------------------------------------------------
(* get_db_connection (database/db.py) and what the database answers *)

\* the connection parameters a session holds
Params(server) == [server |-> server]

\* pyodbc.connect succeeds for the parameters of the one server that is up
Reachable(params) == params.server = "db1"

\* get_db_connection raises: no parameters in the session (None is not
\* subscriptable) or pyodbc.connect fails
ConnectRaises(params) ==
    IF "server" \in DOMAIN params THEN ~Reachable(params) ELSE TRUE

\* one request of a session: its endpoint, the payload of a
\* /api/test-connection, and the parameters get_db_connection was called
\* with while it was served (NoCall: it has not been called)
NoCall == [called |-> FALSE]
Served(endpoint, payload) ==
    [endpoint |-> endpoint, payload |-> payload, connected |-> NoCall]

\* get_db_connection(params) is called for the request being served
Called(h, params) == [h EXCEPT ![Len(h)].connected = params]

\* the answer of the database to a text: a result set, an error, or the
\* completion of a statement that returns no rows
SqlError == [error |-> "42000"]
NoResultSet == [rowcount |-> 1]
HasResultSet(answer) == "columns" \in DOMAIN answer

-----------------------------------------------------------------------------
(* The requests and the database contents the model explores *)

Req(c1, c2, mp, pk) ==
    [query1 |-> Select(c1), query2 |-> Select(c2), mappings |-> mp, primary_keys |-> pk]

Pair(l, r) == [left |-> l, right |-> r]

\* the values a column of the database holds; nullable: it may hold NULL
SqlValues(c, nullable) ==
    (CASE c \in {"id", "amount"} -> {PyInt(1), PyInt(2)}
       [] c \in {"name", "full_name"} -> {PyText("A"), PyText("B")}
       [] c = "note" -> {PyText("A"), PyText("None")}
       [] c = "price" -> {PyFloat(1), PyFloat(2)}
       [] OTHER -> {PyText("A")})
    \cup (IF c \in nullable THEN {None} ELSE {})

\* the result sets a query with select list cols can return: at most
\* MaxRows rows, every multiset of rows once (rows in one fixed order)
ResultSets(cols, nullable) ==
    LET rowspace == SetToSeq({r \in [Range(cols) -> UNION {SqlValues(c, nullable) : c \in Range(cols)}] :
                                 \A c \in Range(cols) : r[c] \in SqlValues(c, nullable)})
        picks == UNION {[1..n -> 1..Len(rowspace)] : n \in 0..MaxRows}
    IN  {[columns |-> cols, rows |-> [i \in 1..Len(p) |-> rowspace[p[i]]]] :
            p \in {q \in picks : \A i \in 1..(Len(q) - 1) : q[i] <= q[i + 1]}}

Case(rq, nullable) == [request |-> rq, nullable |-> nullable]

Cases ==
    { Case(Req(<<"id", "name">>, <<"id", "name">>, <<>>, <<"id">>), {}),
      Case(Req(<<"id", "name">>, <<"id", "name">>, <<>>, <<>>), {}),
      Case(Req(<<"id", "name">>, <<"id", "name">>, <<>>, <<"id">>), {"id"}),
      Case(Req(<<"id", "amount">>, <<"id", "amount">>, <<>>, <<"id">>), {}),
      Case(Req(<<"id", "amount">>, <<"id", "amount">>, <<>>, <<"id">>), {"amount"}),
      Case(Req(<<"id", "name">>, <<"id", "name">>, <<>>, <<"id", "name">>), {}),
      Case(Req(<<"id", "name">>, <<"id", "name">>, <<>>, <<"zip">>), {}),
      \* a text column that holds NULL and the text None
      Case(Req(<<"id", "note">>, <<"id", "note">>, <<>>, <<"id">>), {"note"}),
      \* an integer column against a float column
      Case(Req(<<"id", "amount">>, <<"id", "price">>,
               <<Pair("price", "amount")>>, <<"id">>), {}),
      \* a pair (left: column of query1, right: column of query2)
      Case(Req(<<"id", "name">>, <<"id", "full_name">>,
               <<Pair("name", "full_name")>>, <<"id">>), {}),
      Case(Req(<<"id", "name">>, <<"id", "full_name">>,
               <<Pair("name", "full_name")>>, <<"name">>), {}),
      \* a pair (left: column of query2, right: column of query1)
      Case(Req(<<"id", "name">>, <<"id", "full_name">>,
               <<Pair("full_name", "name")>>, <<"id">>), {}),
      Case(Req(<<"name", "id">>, <<"full_name", "id">>,
               <<Pair("full_name", "name")>>, <<>>), {}),
      Case(Req(<<"id", "name", "email">>, <<"id", "name", "mail">>,
               <<Pair("mail", "email")>>, <<"id">>), {}),
      Case(Req(<<"id", "name">>, <<"id", "full_name">>, <<>>, <<"full_name">>), {}),
      \* a pair that renames a column next to a pair that names none
      Case(Req(<<"id", "name">>, <<"id", "full_name">>,
               <<Pair("full_name", "name"), Pair("zip", "id")>>, <<"id">>), {}),
      \* schemas that share columns in another order, or none
      Case(Req(<<"email", "id", "name">>, <<"name", "id">>, <<>>, <<>>), {}),
      Case(Req(<<"id", "email">>, <<"email", "id">>, <<>>, <<>>), {}),
      Case(Req(<<"name">>, <<"full_name">>, <<>>, <<>>), {}),
      \* two pairs with the same left name, two with the same right name
      Case(Req(<<"id", "name">>, <<"id", "full_name">>,
               <<Pair("name", "full_name"), Pair("name", "email")>>, <<"id">>), {}),
      Case(Req(<<"id", "name">>, <<"id", "full_name">>,
               <<Pair("full_name", "name"), Pair("full_name", "email")>>, <<"id">>), {}),
      Case(Req(<<"id", "name", "email">>, <<"id", "full_name">>,
               <<Pair("name", "full_name"), Pair("email", "full_name")>>, <<"id">>), {}) }

SqlRow(id, name) == [c \in {"id", "name"} |-> IF c = "id" THEN PyInt(id) ELSE PyText(name)]

\* the example of the specification: two rows against three, join key id
ExampleRequest == Req(<<"id", "name">>, <<"id", "name">>, <<>>, <<"id">>)
ExampleDb ==
    [q1 |-> [columns |-> <<"id", "name">>,
             rows |-> <<SqlRow(1, "A"), SqlRow(2, "B")>>],
     q2 |-> [columns |-> <<"id", "name">>,
             rows |-> <<SqlRow(1, "A"), SqlRow(2, "C"), SqlRow(3, "D")>>]]

\* large result sets: g rows of key 0 and u rows of keys of their own on
\* each side; the right rows of key 0 equal the left ones, differ from
\* them, or alternate
BigDb(g1, g2, u, v, pattern) ==
    [q1 |-> [columns |-> <<"id", "name">>,
             rows |-> [i \in 1..(g1 + u) |->
                         IF i <= g1 THEN SqlRow(0, "A")
                         ELSE SqlRow(2 * (i - g1) - 1, "A")]],
     q2 |-> [columns |-> <<"id", "name">>,
             rows |-> [j \in 1..(g2 + v) |->
                         IF j <= g2
                         THEN SqlRow(0, IF pattern = "same" \/ (pattern = "alternate" /\ j % 2 = 1)
                                        THEN "A" ELSE "B")
                         ELSE SqlRow(2 * (j - g2), "B")]]]

-----------------------------------------------------------------------------
(* The handler of /api/compare, stage by stage *)

Fresh ==
    /\ executed = <<>>
    /\ conn = "none"
    /\ df1 = NoFrame
    /\ df2 = NoFrame
    /\ mapping_dict = << >>
    /\ df2_renamed = NoFrame
    /\ common_columns = <<>>
    /\ join_keys = <<>>
    /\ merged = <<>>
    /\ mismatches = <<>>
    /\ response = NoResponse
    /\ trace = <<>>

\* a comparison with the session, the request and the database given
Env(s, rq, d) == [session |-> s, request |-> rq, db |-> d]

\* comparisons in which something is wrong: no parameters in the session,
\* a server that is down, a query the database refuses, a mapping pair
\* without its right name, a text that is not one SELECT statement
Faults ==
    { Env(None, ExampleRequest, ExampleDb),
      Env(Params("nowhere"), ExampleRequest, ExampleDb),
      Env(Params("db1"), ExampleRequest, [ExampleDb EXCEPT !.q1 = SqlError]),
      Env(Params("db1"), ExampleRequest, [ExampleDb EXCEPT !.q2 = SqlError]),
      Env(Params("db1"),
          [ExampleRequest EXCEPT !.query1 = Query(<<"DELETE">>, <<>>)],
          [ExampleDb EXCEPT !.q1 = NoResultSet]),
      Env(Params("db1"),
          [ExampleRequest EXCEPT !.query2 = Query(<<"DELETE">>, <<>>)],
          [ExampleDb EXCEPT !.q2 = NoResultSet]),
      Env(Params("db1"), [ExampleRequest EXCEPT !.mappings = <<[left |-> "name"]>>],
          ExampleDb),
      Env(Params("db1"),
          [ExampleRequest EXCEPT !.query1 = Query(<<"SELECT", "DELETE">>, <<"id", "name">>)],
          ExampleDb),
      Env(Params("db1"),
          [ExampleRequest EXCEPT !.query2 = Query(<<"select", "DROP">>, <<"id", "name">>)],
          ExampleDb) }

Init ==
    /\ \/ /\ session = Params("db1")
          /\ \/ \E c \in Cases :
                   /\ request = c.request
                   /\ \E t1 \in ResultSets(c.request.query1.columns, c.nullable),
                         t2 \in ResultSets(c.request.query2.columns, c.nullable) :
                         db = [q1 |-> t1, q2 |-> t2]
             \/ request = ExampleRequest /\ db = ExampleDb
       \/ \E f \in Faults :
             session = f.session /\ request = f.request /\ db = f.db
    /\ history = <<Served("/api/compare", None)>>
    /\ pc = "start"
    /\ Fresh

InitBig ==
    /\ \/ /\ session = Params("db1")
          /\ request \in {ExampleRequest,
                          Req(<<"id", "name">>, <<"id", "name">>, <<>>, <<"zip">>)}
          /\ \E g1 \in {1, BigGroup}, g2 \in {1, BigGroup - 1},
                u \in {0, BigRows - 2, BigRows - 1, BigRows},
                v \in {0, BigRows - 2, BigRows - 1, BigRows},
                pattern \in {"same", "differ", "alternate"} :
                db = BigDb(g1, g2, u, v, pattern)
       \/ \E f \in Faults :
             session = f.session /\ request = f.request /\ db = f.db
    /\ history = <<Served("/api/compare", None)>>
    /\ pc = "start"
    /\ Fresh

\* ErrorResponse as an answer that keeps what was computed would have it
ErrorResponseWithReport(message) ==
    [status |-> 500, body |-> [error |-> message, matches |-> <<>>]]

\* what the route answers when compare_queries raises
ErrorResponse(message) == [status |-> 500, body |-> [error |-> message]]

\* conn = get_db_connection(connection_params)
Connect ==
    /\ pc = "start"
    /\ ~ConnectRaises(session)
    /\ history' = Called(history, session)
    /\ conn' = "open"
    /\ pc' = "read1"
    /\ trace' = Append(trace, "connect")
    /\ UNCHANGED <<session, executed, request, db, df1, df2, mapping_dict,
                   df2_renamed, common_columns, join_keys, merged, mismatches,
                   response>>

\* get_db_connection raises; the route's except clause answers
ConnectFails ==
    /\ pc = "start"
    /\ ConnectRaises(session)
    /\ history' = Called(history, session)
    /\ response' = ErrorResponse("Connection failed")
    /\ pc' = "failed"
    /\ trace' = Append(trace, "raise")
    /\ UNCHANGED <<session, executed, request, db, conn, df1, df2, mapping_dict,
                   df2_renamed, common_columns, join_keys, merged, mismatches>>

\* df1 = pd.read_sql(query1, conn)
ReadSql1 ==
    /\ pc = "read1"
    /\ HasResultSet(db.q1)
    /\ executed' = Append(executed, request.query1)
    /\ df1' = read_sql(db.q1)
    /\ pc' = "read2"
    /\ trace' = Append(trace, "read_sql1")
    /\ UNCHANGED <<session, history, request, db, conn, df2, mapping_dict, df2_renamed,
                   common_columns, join_keys, merged, mismatches, response>>

\* pd.read_sql(query1, conn) raises: the database refuses the text, or the
\* text ran and left no result set to read; conn.close() is not reached
ReadSql1Fails ==
    /\ pc = "read1"
    /\ ~HasResultSet(db.q1)
    /\ executed' = Append(executed, request.query1)
    /\ response' = ErrorResponse("query1")
    /\ pc' = "failed"
    /\ trace' = Append(trace, "raise")
    /\ UNCHANGED <<session, history, request, db, conn, df1, df2, mapping_dict,
                   df2_renamed, common_columns, join_keys, merged, mismatches>>

\* df2 = pd.read_sql(query2, conn)
ReadSql2 ==
    /\ pc = "read2"
    /\ HasResultSet(db.q2)
    /\ executed' = Append(executed, request.query2)
    /\ df2' = read_sql(db.q2)
    /\ pc' = "close"
    /\ trace' = Append(trace, "read_sql2")
    /\ UNCHANGED <<session, history, request, db, conn, df1, mapping_dict, df2_renamed,
                   common_columns, join_keys, merged, mismatches, response>>

\* pd.read_sql(query2, conn) raises; conn.close() is not reached
ReadSql2Fails ==
    /\ pc = "read2"
    /\ ~HasResultSet(db.q2)
    /\ executed' = Append(executed, request.query2)
    /\ response' = ErrorResponse("query2")
    /\ pc' = "failed"
    /\ trace' = Append(trace, "raise")
    /\ UNCHANGED <<session, history, request, db, conn, df1, df2, mapping_dict,
                   df2_renamed, common_columns, join_keys, merged, mismatches>>

\* conn.close()
CloseConn ==
    /\ pc = "close"
    /\ conn' = "closed"
    /\ pc' = "rename"
    /\ trace' = Append(trace, "close")
    /\ UNCHANGED <<session, history, executed, request, db, df1, df2, mapping_dict,
                   df2_renamed, common_columns, join_keys, merged, mismatches,
                   response>>

\* mapping_dict from the mappings, df2_renamed = df2.rename(columns=mapping_dict)
RenameColumns ==
    /\ pc = "rename"
    /\ ~MappingRaises(request.mappings)
    /\ mapping_dict' = build_mapping_dict(request.mappings)
    /\ df2_renamed' = rename(df2, build_mapping_dict(request.mappings))
    /\ pc' = "keys"
    /\ trace' = Append(trace, "rename")
    /\ UNCHANGED <<session, history, executed, request, db, conn, df1, df2,
                   common_columns, join_keys, merged, mismatches, response>>

\* the loop over the mappings raises; the route's except clause answers
RenameFails ==
    /\ pc = "rename"
    /\ MappingRaises(request.mappings)
    /\ response' = ErrorResponse("mapping")
    /\ pc' = "failed"
    /\ trace' = Append(trace, "raise")
    /\ UNCHANGED <<session, history, executed, request, db, conn, df1, df2, mapping_dict,
                   df2_renamed, common_columns, join_keys, merged, mismatches>>

\* common_columns and join_keys
ChooseKeys ==
    /\ pc = "keys"
    /\ common_columns' = CommonColumns(df1, df2_renamed)
    /\ join_keys' = JoinKeys(request.primary_keys, CommonColumns(df1, df2_renamed))
    /\ pc' = "merge"
    /\ trace' = Append(trace, "keys")
    /\ UNCHANGED <<session, history, executed, request, db, conn, df1, df2, mapping_dict,
                   df2_renamed, merged, mismatches, response>>

\* merged = pd.merge(...)
Merge ==
    /\ pc = "merge"
    /\ ~MergeRaises(df1, df2_renamed, join_keys)
    /\ merged' = merge(df1, df2_renamed, join_keys)
    /\ pc' = "diff"
    /\ trace' = Append(trace, "merge")
    /\ UNCHANGED <<session, history, executed, request, db, conn, df1, df2, mapping_dict,
                   df2_renamed, common_columns, join_keys, mismatches, response>>

\* pd.merge raises; the route's except clause answers with the error
MergeFails ==
    /\ pc = "merge"
    /\ MergeRaises(df1, df2_renamed, join_keys)
    /\ response' = ErrorResponse("merge")
    /\ pc' = "failed"
    /\ trace' = Append(trace, "raise")
    /\ UNCHANGED <<session, history, executed, request, db, conn, df1, df2, mapping_dict,
                   df2_renamed, common_columns, join_keys, merged, mismatches>>

\* the loop over matches.iterrows()
Diff ==
    /\ pc = "diff"
    /\ mismatches' = find_mismatches(Category(merged, "both"), common_columns, join_keys)
    /\ pc' = "report"
    /\ trace' = Append(trace, "diff")
    /\ UNCHANGED <<session, history, executed, request, db, conn, df1, df2, mapping_dict,
                   df2_renamed, common_columns, join_keys, merged, response>>

\* return {...}; the route answers jsonify(result)
Report ==
    /\ pc = "report"
    /\ response' = [status |-> 200,
                    body |-> build_report(df1, df2, common_columns, merged, mismatches)]
    /\ pc' = "done"
    /\ trace' = Append(trace, "report")
    /\ UNCHANGED <<session, history, executed, request, db, conn, df1, df2, mapping_dict,
                   df2_renamed, common_columns, join_keys, merged, mismatches>>

Next ==
    \/ Connect
    \/ ConnectFails
    \/ ReadSql1
    \/ ReadSql1Fails
    \/ ReadSql2
    \/ ReadSql2Fails
    \/ CloseConn
    \/ RenameColumns
    \/ RenameFails
    \/ ChooseKeys
    \/ Merge
    \/ MergeFails
    \/ Diff
    \/ Report

Spec == Init /\ [][Next]_vars

SpecBig == InitBig /\ [][Next]_vars

-----------------------------------------------------------------------------
(* The handler of /api/execute-query (routes/query.py), step by step; its  *)
(* request holds one text, query, and the database answers it with db.q    *)

\* cursor.fetchmany(1000)
FetchBound == 1000

\* the texts sent to /api/execute-query
ExecQueries ==
    { Select(<<"id", "name">>),
      Query(<<"select">>, <<"id", "name">>),
      Query(<<"SELECT", "SELECT">>, <<"id", "name">>),
      Query(<<"SELECT", "DELETE">>, <<"id", "name">>),
      Query(<<"Select", "DROP", "SELECT">>, <<"id", "name">>),
      Query(<<"DELETE">>, <<>>),
      Query(<<"DELETE", "SELECT">>, <<>>),
      Query(<<"WITH">>, <<"id", "name">>),
      Query(<<"">>, <<>>),
      Query(<<>>, <<>>) }

\* what the database can answer to a text
Answers(query) ==
    {SqlError} \cup
    (IF query.columns = <<>> THEN {NoResultSet} ELSE ResultSets(query.columns, {}))

InitExec ==
    /\ session \in {None, Params("db1"), Params("nowhere")}
    /\ \E q \in ExecQueries :
          /\ request = [query |-> q]
          /\ \E a \in Answers(q) : db = [q |-> a]
    /\ history = <<Served("/api/execute-query", None)>>
    /\ pc = "exec_start"
    /\ Fresh

\* is_valid, error = validate_sql(query); if not is_valid: return ..., 400
ExecValidateRejects ==
    /\ pc = "exec_start"
    /\ ~validate_sql(request.query).is_valid
    /\ response' = [status |-> 400,
                    body |-> [error |-> validate_sql(request.query).error.s]]
    /\ pc' = "exec_done"
    /\ trace' = Append(trace, "reject")
    /\ UNCHANGED <<session, history, executed, request, db, conn, df1, df2, mapping_dict,
                   df2_renamed, common_columns, join_keys, merged, mismatches>>

ExecValidateAccepts ==
    /\ pc = "exec_start"
    /\ validate_sql(request.query).is_valid
    /\ pc' = "exec_connect"
    /\ trace' = Append(trace, "validate")
    /\ UNCHANGED <<session, history, executed, request, db, conn, df1, df2, mapping_dict,
                   df2_renamed, common_columns, join_keys, merged, mismatches,
                   response>>

\* conn = get_db_connection(session.get('db_connection'))
ExecConnect ==
    /\ pc = "exec_connect"
    /\ ~ConnectRaises(session)
    /\ history' = Called(history, session)
    /\ conn' = "open"
    /\ pc' = "exec_execute"
    /\ trace' = Append(trace, "connect")
    /\ UNCHANGED <<session, executed, request, db, df1, df2, mapping_dict,
                   df2_renamed, common_columns, join_keys, merged, mismatches,
                   response>>

ExecConnectFails ==
    /\ pc = "exec_connect"
    /\ ConnectRaises(session)
    /\ history' = Called(history, session)
    /\ response' = ErrorResponse("Connection failed")
    /\ pc' = "exec_done"
    /\ trace' = Append(trace, "raise")
    /\ UNCHANGED <<session, executed, request, db, conn, df1, df2, mapping_dict,
                   df2_renamed, common_columns, join_keys, merged, mismatches>>

\* cursor.execute(query) and the reading of cursor.description
ExecExecute ==
    /\ pc = "exec_execute"
    /\ HasResultSet(db.q)
    /\ executed' = Append(executed, request.query)
    /\ pc' = "exec_fetch"
    /\ trace' = Append(trace, "execute")
    /\ UNCHANGED <<session, history, request, db, conn, df1, df2, mapping_dict,
                   df2_renamed, common_columns, join_keys, merged, mismatches,
                   response>>

\* cursor.execute raises, or the text ran and cursor.description is None;
\* the except clause answers, conn.close() is not reached
ExecExecuteFails ==
    /\ pc = "exec_execute"
    /\ ~HasResultSet(db.q)
    /\ executed' = Append(executed, request.query)
    /\ response' = ErrorResponse("query")
    /\ pc' = "exec_done"
    /\ trace' = Append(trace, "raise")
    /\ UNCHANGED <<session, history, request, db, conn, df1, df2, mapping_dict,
                   df2_renamed, common_columns, join_keys, merged, mismatches>>

\* rows = cursor.fetchmany(1000); cursor.close(); conn.close()
ExecFetchClose ==
    /\ pc = "exec_fetch"
    /\ df1' = [columns |-> db.q.columns, rows |-> Prefix(db.q.rows, FetchBound)]
    /\ conn' = "closed"
    /\ pc' = "exec_respond"
    /\ trace' = Append(trace, "close")
    /\ UNCHANGED <<session, history, executed, request, db, df2, mapping_dict,
                   df2_renamed, common_columns, join_keys, merged, mismatches,
                   response>>

\* return jsonify({"columns": ..., "rows": ..., "row_count": ...})
ExecRespond ==
    /\ pc = "exec_respond"
    /\ response' = [status |-> 200,
                    body |-> [columns |-> df1.columns, rows |-> df1.rows,
                              row_count |-> Len(df1.rows)]]
    /\ pc' = "exec_done"
    /\ trace' = Append(trace, "respond")
    /\ UNCHANGED <<session, history, executed, request, db, conn, df1, df2, mapping_dict,
                   df2_renamed, common_columns, join_keys, merged, mismatches>>

\* jsonify raises on a row it cannot serialize (a pyodbc.Row, where the JSON
\* provider does not know the type); the except clause answers
ExecRespondFails ==
    /\ pc = "exec_respond"
    /\ df1.rows # <<>>
    /\ response' = ErrorResponse("jsonify")
    /\ pc' = "exec_done"
    /\ trace' = Append(trace, "raise")
    /\ UNCHANGED <<session, history, executed, request, db, conn, df1, df2, mapping_dict,
                   df2_renamed, common_columns, join_keys, merged, mismatches>>

InitApi == Init \/ InitExec

NextApi ==
    \/ Next
    \/ ExecValidateRejects
    \/ ExecValidateAccepts
    \/ ExecConnect
    \/ ExecConnectFails
    \/ ExecExecute
    \/ ExecExecuteFails
    \/ ExecFetchClose
    \/ ExecRespond
    \/ ExecRespondFails

\* both handlers
SpecApi == InitApi /\ [][NextApi]_vars

-----------------------------------------------------------------------------
\* One session: /api/test-connection, and the requests that follow it

\* the number of requests of a session
MaxRequests == 4

\* the payloads of /api/test-connection: a server that answers, one that
\* does not
Payloads == {Params("db1"), Params("nowhere")}

\* the comparisons of a session
SessionCompares ==
    { [request |-> ExampleRequest, db |-> ExampleDb],
      [request |-> ExampleRequest, db |-> [ExampleDb EXCEPT !.q1 = SqlError]],
      [request |-> ExampleRequest, db |-> [ExampleDb EXCEPT !.q2 = SqlError]],
      [request |-> [ExampleRequest EXCEPT !.mappings = <<[left |-> "name"]>>],
       db |-> ExampleDb],
      [request |-> Req(<<"id", "name">>, <<"id", "name">>, <<>>, <<"zip">>),
       db |-> ExampleDb] }

\* the texts of /api/execute-query in a session, each with its answer
SessionQueries ==
    { [query |-> Select(<<"id", "name">>), answer |-> ExampleDb.q1],
      [query |-> Select(<<"id", "name">>), answer |-> SqlError],
      [query |-> Query(<<"DELETE">>, <<>>), answer |-> NoResultSet] }

\* no request is being served
NoRequest == [endpoint |-> "none"]

\* a session of the filesystem store before its first request:
\* session.get('db_connection') is None
InitSession ==
    /\ session = None
    /\ history = <<>>
    /\ request = NoRequest
    /\ db = NoRequest
    /\ pc = "idle"
    /\ Fresh

\* the handler of the last request has returned (or none was received)
Idle == pc \in {"idle", "done", "failed", "exec_done", "test_done"}

\* the locals of a handler at its entry; the session is kept
Entered ==
    /\ executed' = <<>>
    /\ conn' = "none"
    /\ df1' = NoFrame
    /\ df2' = NoFrame
    /\ mapping_dict' = << >>
    /\ df2_renamed' = NoFrame
    /\ common_columns' = <<>>
    /\ join_keys' = <<>>
    /\ merged' = <<>>
    /\ mismatches' = <<>>
    /\ response' = NoResponse
    /\ trace' = <<>>

\* POST /api/test-connection: data = request.json
ReceiveTestConnection ==
    /\ Idle
    /\ Len(history) < MaxRequests
    /\ \E data \in Payloads :
          /\ request' = [payload |-> data]
          /\ history' = Append(history, Served("/api/test-connection", data))
    /\ pc' = "test_store"
    /\ Entered
    /\ UNCHANGED <<session, db>>

\* POST /api/compare
ReceiveCompare ==
    /\ Idle
    /\ Len(history) < MaxRequests
    /\ \E c \in SessionCompares : request' = c.request /\ db' = c.db
    /\ history' = Append(history, Served("/api/compare", None))
    /\ pc' = "start"
    /\ Entered
    /\ UNCHANGED session

\* POST /api/execute-query
ReceiveExecuteQuery ==
    /\ Idle
    /\ Len(history) < MaxRequests
    /\ \E q \in SessionQueries :
          request' = [query |-> q.query] /\ db' = [q |-> q.answer]
    /\ history' = Append(history, Served("/api/execute-query", None))
    /\ pc' = "exec_start"
    /\ Entered
    /\ UNCHANGED session

\* the payload is stored only when its server answers
StoreWhenReachable ==
    /\ pc = "test_store"
    /\ session' = IF ConnectRaises(request.payload) THEN session ELSE request.payload
    /\ pc' = "test_connect"
    /\ trace' = Append(trace, "store")
    /\ UNCHANGED <<history, executed, request, db, conn, df1, df2, mapping_dict,
                   df2_renamed, common_columns, join_keys, merged, mismatches,
                   response>>

\* session['db_connection'] = data
StoreInSession ==
    /\ pc = "test_store"
    /\ session' = request.payload
    /\ pc' = "test_connect"
    /\ trace' = Append(trace, "store")
    /\ UNCHANGED <<history, executed, request, db, conn, df1, df2, mapping_dict,
                   df2_renamed, common_columns, join_keys, merged, mismatches,
                   response>>

\* the answer of test_connection, which jsonify returns with status 200
TestResponse(status, message) ==
    [status |-> 200, body |-> [status |-> status, message |-> message]]

\* result = test_connection(data): get_db_connection(data) returns, the
\* connection is closed; return jsonify(result)
TestConnectionSucceeds ==
    /\ pc = "test_connect"
    /\ ~ConnectRaises(request.payload)
    /\ history' = Called(history, request.payload)
    /\ conn' = "closed"
    /\ response' = TestResponse("success", "Connected successfully")
    /\ pc' = "test_done"
    /\ trace' = Append(trace, "connect")
    /\ UNCHANGED <<session, executed, request, db, df1, df2, mapping_dict,
                   df2_renamed, common_columns, join_keys, merged, mismatches>>

\* get_db_connection(data) raises; test_connection catches and answers
\* status "error"
TestConnectionFails ==
    /\ pc = "test_connect"
    /\ ConnectRaises(request.payload)
    /\ history' = Called(history, request.payload)
    /\ response' = TestResponse("error", "Connection failed")
    /\ pc' = "test_done"
    /\ trace' = Append(trace, "raise")
    /\ UNCHANGED <<session, executed, request, db, conn, df1, df2, mapping_dict,
                   df2_renamed, common_columns, join_keys, merged, mismatches>>

NextSession ==
    \/ ReceiveTestConnection
    \/ ReceiveCompare
    \/ ReceiveExecuteQuery
    \/ StoreInSession
    \/ TestConnectionSucceeds
    \/ TestConnectionFails
    \/ NextApi

\* the three handlers, serving the requests of one session in turn
SpecSession == InitSession /\ [][NextSession]_vars

-----------------------------------------------------------------------------
(* Properties *)

Tag(e) == merged[e].row["_merge"]
Entries == 1..Len(merged)

\* the join has run
Aligned == pc \in {"diff", "report", "done"}

\* the handler has answered with a report
Reported == pc = "done" /\ response.status = 200

\* two values that differ at most by the dtype of their column
SameValue(a, b) == a = b \/ AsFloat(a) = AsFloat(b)

\* two rows with the same join key, null against null counted as the same
SameKey(a, b) ==
    \A k \in Range(join_keys) :
        \/ IsNull(Get(a, k)) /\ IsNull(Get(b, k))
        \/ /\ ~IsNull(Get(a, k))
           /\ ~IsNull(Get(b, k))
           /\ str(AsFloat(Get(a, k))) = str(AsFloat(Get(b, k)))

UniqueKeys(df) ==
    \A i, j \in 1..Len(df.rows) : i # j => ~SameKey(df.rows[i], df.rows[j])

LeftOnlyOf(i) == {e \in Entries : merged[e].l = i /\ Tag(e) = PyText("left_only")}
RightOnlyOf(j) == {e \in Entries : merged[e].r = j /\ Tag(e) = PyText("right_only")}
PairsOfLeft(i) == {e \in Entries : merged[e].l = i /\ Tag(e) = PyText("both")}
PairsOfRight(j) == {e \in Entries : merged[e].r = j /\ Tag(e) = PyText("both")}

\* C1: partition completeness.  Once the join has run, every left row is
\* in exactly one left-only entry and no matched pair, or in at least one
\* matched pair and no left-only entry, and so is every right row on its
\* side; every entry stems from rows of the inputs and carries the left
\* row's values; the report counts the one-sided rows so; and with keys
\* unique on each side total_rows = matches + only_in on each side.
PartitionCompleteness ==
    Aligned =>
        /\ \A i \in 1..Len(df1.rows) :
              \/ Cardinality(LeftOnlyOf(i)) = 1 /\ PairsOfLeft(i) = {}
              \/ LeftOnlyOf(i) = {} /\ PairsOfLeft(i) # {}
        /\ \A j \in 1..Len(df2_renamed.rows) :
              \/ Cardinality(RightOnlyOf(j)) = 1 /\ PairsOfRight(j) = {}
              \/ RightOnlyOf(j) = {} /\ PairsOfRight(j) # {}
        /\ \A e \in Entries :
              /\ Tag(e) \in {PyText("left_only"), PyText("right_only"), PyText("both")}
              /\ Tag(e) = PyText("left_only") =>
                    merged[e].l \in 1..Len(df1.rows) /\ merged[e].r = 0
              /\ Tag(e) = PyText("right_only") =>
                    merged[e].l = 0 /\ merged[e].r \in 1..Len(df2_renamed.rows)
              /\ Tag(e) = PyText("both") =>
                    /\ merged[e].l \in 1..Len(df1.rows)
                    /\ merged[e].r \in 1..Len(df2_renamed.rows)
                    /\ SameKey(df1.rows[merged[e].l], df2_renamed.rows[merged[e].r])
              /\ merged[e].l # 0 =>
                    \A c \in Range(df1.columns) :
                        SameValue(df1.rows[merged[e].l][c],
                                  Get(merged[e].row,
                                      MergedName(c, join_keys, df2_renamed, "_query1")))
              /\ merged[e].r # 0 =>
                    \A c \in Range(df2_renamed.columns) :
                        SameValue(df2_renamed.rows[merged[e].r][c],
                                  Get(merged[e].row,
                                      MergedName(c, join_keys, df1, "_query2")))
        /\ Reported =>
              LET sm == response.body.summary
                  pairs == Cardinality({e \in Entries : Tag(e) = PyText("both")})
              IN  /\ sm.total_rows_query1 = Len(db.q1.rows)
                  /\ sm.total_rows_query2 = Len(db.q2.rows)
                  /\ sm.matches = pairs
                  /\ sm.only_in_query1 =
                        Cardinality({i \in 1..Len(df1.rows) : PairsOfLeft(i) = {}})
                  /\ sm.only_in_query2 =
                        Cardinality({j \in 1..Len(df2_renamed.rows) : PairsOfRight(j) = {}})
                  /\ UniqueKeys(df1) /\ UniqueKeys(df2_renamed) =>
                        /\ sm.total_rows_query1 = pairs + sm.only_in_query1
                        /\ sm.total_rows_query2 = pairs + sm.only_in_query2

\* C1 witness: a report over unique keys with a matched pair, a left-only
\* row and a right-only row
PartitionWitness ==
    /\ Reported
    /\ UniqueKeys(df1) /\ UniqueKeys(df2_renamed)
    /\ response.body.summary.matches >= 1
    /\ response.body.summary.only_in_query1 >= 1
    /\ response.body.summary.only_in_query2 >= 1

-----------------------------------------------------------------------------
Both == {e \in Entries : Tag(e) = PyText("both")}

\* the matched entries with no, and with some, differing shared non-key column
CleanPairs ==
    {e \in Both : DOMAIN row_mismatches(merged[e].row, common_columns, join_keys) = {}}
DirtyPairs == Both \ CleanPairs

\* C2: in a report, summary.matches is the number of matched pairs with no
\* differing shared non-key column and summary.mismatches the number of
\* those with at least one, the two adding up to the number of matched
\* pairs; on the example (two rows against three, key id) the summary is
\* total_rows_query1 = 2, total_rows_query2 = 3, matches = 1,
\* mismatches = 1, only_in_query2 = 1.
SummaryMatchesExcludeMismatches ==
    Reported =>
        LET sm == response.body.summary
        IN  /\ sm.matches = Cardinality(CleanPairs)
            /\ sm.mismatches = Cardinality(DirtyPairs)
            /\ sm.matches + sm.mismatches = Cardinality(Both)
            /\ (request = ExampleRequest /\ db = ExampleDb) =>
                  /\ sm.total_rows_query1 = 2
                  /\ sm.total_rows_query2 = 3
                  /\ sm.matches = 1
                  /\ sm.mismatches = 1
                  /\ sm.only_in_query2 = 1

\* left row i and right row j differ, as strings, in a shared non-key column
DiffersInInputs(i, j) ==
    \E c \in Range(common_columns) \ Range(join_keys) :
        str(Get(df1.rows[i], c)) # str(Get(df2_renamed.rows[j], c))

\* C3: mismatch soundness.  The mismatch records are those of the matched
\* pairs whose rows differ, under the string-normalized comparison, in at
\* least one shared non-key column: one record per such pair, in the order
\* of the pairs and under the pair's key, and no record for any other pair
\* or for a one-sided row.
MismatchSoundness ==
    pc \in {"report", "done"} =>
        LET differing == SelectSeq(Category(merged, "both"),
                                   LAMBDA e : DiffersInInputs(e.l, e.r))
        IN  /\ Len(mismatches) = Len(differing)
            /\ \A n \in 1..Len(mismatches) :
                  \A k \in Range(join_keys) :
                      mismatches[n].key[k] = differing[n].row[k]

\* the matched entries, by the rows they stem from
FullCategory(side) ==
    SelectSeq(merged, LAMBDA e :
        CASE side = "both" -> e.l # 0 /\ e.r # 0
          [] side = "left" -> e.l # 0 /\ e.r = 0
          [] side = "right" -> e.l = 0 /\ e.r # 0)

\* list is the first PreviewBound rows of full
IsPreviewOf(list, full) ==
    /\ Len(list) = Min(PreviewBound, Len(full))
    /\ Len(list) <= PreviewBound
    /\ \A i \in 1..Len(list) : list[i] = full[i].row

\* C4: truncation invariant.  In every report each of matches,
\* only_in_query1, only_in_query2 and mismatches holds at most 100 entries
\* and is the first 100 of its category in the order of the join, while
\* every count of the summary is the size of the whole category and the
\* totals are the sizes of the result sets.
TruncationInvariant ==
    Reported =>
        LET b == response.body
        IN  /\ IsPreviewOf(b.matches, FullCategory("both"))
            /\ IsPreviewOf(b.only_in_query1, FullCategory("left"))
            /\ IsPreviewOf(b.only_in_query2, FullCategory("right"))
            /\ Len(b.mismatches) = Min(PreviewBound, Len(mismatches))
            /\ \A i \in 1..Len(b.mismatches) : b.mismatches[i] = mismatches[i]
            /\ b.summary.matches = Len(FullCategory("both"))
            /\ b.summary.only_in_query1 = Len(FullCategory("left"))
            /\ b.summary.only_in_query2 = Len(FullCategory("right"))
            /\ b.summary.mismatches = Cardinality(DirtyPairs)
            /\ b.summary.total_rows_query1 = Len(db.q1.rows)
            /\ b.summary.total_rows_query2 = Len(db.q2.rows)

\* C4 witness: a report whose four categories all exceed 100 entries
TruncationWitness ==
    /\ Reported
    /\ response.body.summary.matches > PreviewBound
    /\ response.body.summary.only_in_query1 > PreviewBound
    /\ response.body.summary.only_in_query2 > PreviewBound
    /\ response.body.summary.mismatches > PreviewBound
    /\ Len(response.body.matches) = PreviewBound
    /\ Len(response.body.only_in_query1) = PreviewBound
    /\ Len(response.body.only_in_query2) = PreviewBound
    /\ Len(response.body.mismatches) = PreviewBound

\* the rename has run
Mapped == "rename" \in Range(trace)

\* the join keys have been chosen
Keyed == "keys" \in Range(trace)

Mappings == {request.mappings[n] : n \in 1..Len(request.mappings)}

\* C5: the mapping relabels the right result set into the left's names.
\* For every pair (left L, right R), L a column of the left result set, R
\* a column of the right one, L other than R: after the rename the right
\* column R is named L, L is a shared column, and the matched pairs carry
\* left L and right R side by side for the diff.
MappingRelabelsRight ==
    Mapped =>
        \A m \in Mappings :
            (/\ m.left \in Range(df1.columns)
             /\ m.right \in Range(df2.columns)
             /\ m.left # m.right) =>
                /\ \A p \in 1..Len(df2.columns) :
                      df2.columns[p] = m.right => df2_renamed.columns[p] = m.left
                /\ Keyed => m.left \in Range(common_columns)
                /\ (Aligned /\ m.left \notin Range(join_keys)) =>
                      \A e \in Both :
                          /\ SameValue(Get(merged[e].row, m.left \o "_query1"),
                                       df1.rows[merged[e].l][m.left])
                          /\ SameValue(Get(merged[e].row, m.left \o "_query2"),
                                       df2.rows[merged[e].r][m.right])

\* the columns of both result sets that no mapping pair names
PassThroughColumns ==
    {c \in Range(df1.columns) \cap Range(df2.columns) :
        \A m \in Mappings : \A side \in DOMAIN m : m[side] # c}

\* C6: mapping pass-through.  A column of both result sets that no pair
\* names keeps its name and its values on the right side through the
\* rename, is a shared column, and, when it is no join key, every matched
\* pair carries its two values side by side and the mismatch records that
\* name it are as many as the matched pairs in which the two differ.
MappingPassThrough ==
    \A c \in PassThroughColumns :
        /\ Mapped =>
              /\ c \in Range(df2_renamed.columns)
              /\ Len(df2_renamed.columns) = Len(df2.columns)
              /\ \A p \in 1..Len(df2.columns) :
                    df2.columns[p] = c => df2_renamed.columns[p] = c
              /\ \A j \in 1..Len(df2.rows) :
                    Get(df2_renamed.rows[j], c) = df2.rows[j][c]
        /\ Keyed => c \in Range(common_columns)
        /\ (pc \in {"report", "done"} /\ c \notin Range(join_keys)) =>
              /\ \A e \in Both :
                    /\ SameValue(Get(merged[e].row, c \o "_query1"),
                                 df1.rows[merged[e].l][c])
                    /\ SameValue(Get(merged[e].row, c \o "_query2"),
                                 df2.rows[merged[e].r][c])
              /\ Cardinality({n \in 1..Len(mismatches) :
                                 c \in DOMAIN mismatches[n].differences})
                 = Cardinality({e \in Both :
                                 str(Get(merged[e].row, c \o "_query1"))
                                     # str(Get(merged[e].row, c \o "_query2"))})

\* C6 witness: a report under a mapping that renamed a column, with a
\* pass-through column that is no key and differs in some matched pair
PassThroughWitness ==
    /\ Reported
    /\ df2_renamed.columns # df2.columns
    /\ \E c \in PassThroughColumns :
          /\ c \notin Range(join_keys)
          /\ \E n \in 1..Len(mismatches) : c \in DOMAIN mismatches[n].differences

\* C8: join-key fallback.  With no primary key given and a column shared
\* by the left schema and the renamed right schema, the join key is one
\* column: the first column of the left schema, in its order, that is a
\* column of the renamed right schema (id for shared columns id, email).
JoinKeyFallback ==
    (/\ Keyed
     /\ request.primary_keys = <<>>
     /\ Range(df1.columns) \cap Range(df2_renamed.columns) # {}) =>
        /\ Len(join_keys) = 1
        /\ \E p \in 1..Len(df1.columns) :
              /\ df1.columns[p] = join_keys[1]
              /\ join_keys[1] \in Range(df2_renamed.columns)
              /\ \A q \in 1..(p - 1) : df1.columns[q] \notin Range(df2_renamed.columns)
        /\ (df1.columns = <<"id", "email">>
               /\ Range(df2_renamed.columns) = {"id", "email"}) =>
              join_keys = <<"id">>

\* C8 witness: a report on the fallback key where the first left column is
\* not shared and the right schema lists the shared columns in another order
FallbackWitness ==
    /\ Reported
    /\ request.primary_keys = <<>>
    /\ df1.columns[1] \notin Range(df2_renamed.columns)
    /\ df2_renamed.columns[1] \in Range(df1.columns)
    /\ df2_renamed.columns[1] # join_keys[1]
    /\ Len(merged) > 0

\* a join key that is no column of the left or of the renamed right schema
KeyAbsent ==
    \E k \in Range(join_keys) :
        k \notin Range(df1.columns) \/ k \notin Range(df2_renamed.columns)

\* C9: schema mismatch fails fast.  With a join key absent from the left
\* schema or from the renamed right schema the join cannot run and only
\* its failure can; no row is aligned or compared, and the caller is
\* answered with an error and no report.
SchemaMismatchFailsFast ==
    (Keyed /\ KeyAbsent) =>
        /\ pc \in {"merge", "failed"}
        /\ "merge" \notin Range(trace)
        /\ "diff" \notin Range(trace)
        /\ merged = <<>>
        /\ mismatches = <<>>
        /\ pc = "merge" =>
              /\ response = NoResponse
              /\ ~ENABLED Merge
              /\ ENABLED MergeFails
        /\ pc = "failed" =>
              /\ response.status = 500
              /\ DOMAIN response.body = {"error"}

\* C9 witness: an error answer for a key the left schema has and the
\* renamed right schema lacks, both result sets holding rows
SchemaMismatchWitness ==
    /\ pc = "failed"
    /\ response.status = 500
    /\ \E k \in Range(join_keys) :
          k \in Range(df1.columns) /\ k \notin Range(df2_renamed.columns)
    /\ df1.rows # <<>>
    /\ df2.rows # <<>>

\* two pairs with the same left name or with the same right name
DuplicateMapping ==
    \E a, b \in 1..Len(request.mappings) :
        /\ a # b
        /\ \/ request.mappings[a].left = request.mappings[b].left
           \/ request.mappings[a].right = request.mappings[b].right

\* C10: invalid mapping is rejected.  With two pairs of the same left name
\* or of the same right name the comparison ends in an error before the
\* rename and the join: neither runs, no report is answered, and the
\* dictionary never holds fewer pairs than the mapping.
InvalidMappingRejected ==
    DuplicateMapping =>
        /\ "rename" \notin Range(trace)
        /\ "merge" \notin Range(trace)
        /\ response.status # 200
        /\ Mapped => Cardinality(DOMAIN mapping_dict) = Len(request.mappings)

-----------------------------------------------------------------------------
\* row has no value in some join-key column
NullKey(row) == \E k \in Range(join_keys) : IsNull(Get(row, k))

\* the left and the right rows without a value in the same join-key column
NullKeyPair(a, b) ==
    \E k \in Range(join_keys) : IsNull(Get(a, k)) /\ IsNull(Get(b, k))

\* C11: null join keys never match.  Once the join has run, no matched pair
\* aligns a left row and a right row that both lack a value in the same
\* join-key column; a left row without a key value is in a left-only entry,
\* a right row without one in a right-only entry, and the report counts
\* them in only_in_query1 and only_in_query2.
NullKeysNeverMatch ==
    Aligned =>
        /\ \A e \in Both :
              ~NullKeyPair(df1.rows[merged[e].l], df2_renamed.rows[merged[e].r])
        /\ \A i \in 1..Len(df1.rows) :
              NullKey(df1.rows[i]) => LeftOnlyOf(i) # {} /\ PairsOfLeft(i) = {}
        /\ \A j \in 1..Len(df2_renamed.rows) :
              NullKey(df2_renamed.rows[j]) => RightOnlyOf(j) # {} /\ PairsOfRight(j) = {}
        /\ Reported =>
              /\ response.body.summary.only_in_query1 >=
                    Cardinality({i \in 1..Len(df1.rows) : NullKey(df1.rows[i])})
              /\ response.body.summary.only_in_query2 >=
                    Cardinality({j \in 1..Len(df2_renamed.rows) : NullKey(df2_renamed.rows[j])})

-----------------------------------------------------------------------------
\* the left and the right rows that carry the join key of left row i
LeftGroup(i) == {a \in 1..Len(df1.rows) : SameKey(df1.rows[a], df1.rows[i])}
RightGroup(i) == {b \in 1..Len(df2_renamed.rows) : SameKey(df2_renamed.rows[b], df1.rows[i])}

\* the matched entries that align left row i with right row j
PairsOf(i, j) == {e \in Both : merged[e].l = i /\ merged[e].r = j}

\* the matched entries with a differing shared non-key column, in join order
DirtyEntries ==
    SelectSeq(Category(merged, "both"),
              LAMBDA e : DOMAIN row_mismatches(e.row, common_columns, join_keys) # {})

\* C12: cross-product alignment on duplicate keys.  Once the join has run,
\* the m left rows and the n right rows of one key tuple (no value of it
\* null) give exactly m*n matched pairs, one per combination of a left row
\* and a right row; with no null key in the inputs the matched pairs are as
\* many as the combinations of a left and a right row of equal keys, and
\* the report counts that many; each matched pair is diffed on its own:
\* the mismatch records are those of the pairs whose own two values differ,
\* one record per such pair, in the order of the join.
CrossProductAlignment ==
    Aligned =>
        /\ \A i \in 1..Len(df1.rows) :
              ~NullKey(df1.rows[i]) =>
                  /\ \A j \in RightGroup(i) : Cardinality(PairsOf(i, j)) = 1
                  /\ Cardinality({e \in Both : merged[e].l \in LeftGroup(i)})
                        = Cardinality(LeftGroup(i)) * Cardinality(RightGroup(i))
        /\ ((\A i \in 1..Len(df1.rows) : ~NullKey(df1.rows[i]))
               /\ (\A j \in 1..Len(df2_renamed.rows) : ~NullKey(df2_renamed.rows[j]))) =>
              /\ Cardinality(Both) =
                    Cardinality({p \in (1..Len(df1.rows)) \X (1..Len(df2_renamed.rows)) :
                                    SameKey(df1.rows[p[1]], df2_renamed.rows[p[2]])})
              /\ Reported => response.body.summary.matches = Cardinality(Both)
        /\ pc \in {"report", "done"} =>
              /\ Len(mismatches) = Len(DirtyEntries)
              /\ \A n \in 1..Len(DirtyEntries) :
                    /\ n <= Len(mismatches)
                    /\ mismatches[n].differences =
                          row_mismatches(DirtyEntries[n].row, common_columns, join_keys)
                    /\ \A k \in Range(join_keys) :
                          mismatches[n].key[k] = DirtyEntries[n].row[k]

\* C12 witness: a report where two left rows and two right rows share one
\* key, the four pairs partly equal and partly different
CrossProductWitness ==
    /\ Reported
    /\ \E i \in 1..Len(df1.rows) :
          /\ ~NullKey(df1.rows[i])
          /\ Cardinality(LeftGroup(i)) = 2
          /\ Cardinality(RightGroup(i)) = 2
    /\ Cardinality(Both) = 4
    /\ Len(mismatches) \in 1..3

-----------------------------------------------------------------------------
\* the request is one to /api/compare, to /api/execute-query
IsCompare == "query1" \in DOMAIN request
IsExecute == "query" \in DOMAIN request

\* every statement of the text starts with SELECT
OnlySelects(query) ==
    /\ query.statements # <<>>
    /\ \A n \in 1..Len(query.statements) : Upper(query.statements[n]) = "SELECT"

\* C13: validation precedes comparison.  In a request to /api/compare no
\* text is handed to the database before validate_sql has passed query1
\* and query2: whenever a text has reached the database the validation
\* has run, both texts are valid, and the text holds no statement other
\* than a SELECT.
ValidationPrecedesComparison ==
    (IsCompare /\ executed # <<>>) =>
        /\ "validate" \in Range(trace)
        /\ validate_sql(request.query1).is_valid
        /\ validate_sql(request.query2).is_valid
        /\ \A n \in 1..Len(executed) : OnlySelects(executed[n])

-----------------------------------------------------------------------------
\* C14: validate_sql rejects any non-SELECT statement.  In a request to
\* /api/execute-query, validate_sql accepts the text only if every one of
\* its statements starts with SELECT; a text whose first statement is a
\* SELECT and which holds a later statement that is none is rejected with
\* an error (status 400) and is never handed to cursor.execute.
ValidatorRejectsNonSelect ==
    IsExecute =>
        /\ validate_sql(request.query).is_valid => OnlySelects(request.query)
        /\ ~OnlySelects(request.query) =>
              /\ validate_sql(request.query).error # None
              /\ request.query \notin Range(executed)
              /\ pc = "exec_done" => response.status = 400

-----------------------------------------------------------------------------
\* the fields of a complete report
ReportFields ==
    {"summary", "matches", "only_in_query1", "only_in_query2", "mismatches", "columns"}

\* the handler of /api/compare has answered
Answered == pc \in {"done", "failed"}

\* the number of times a stage is in the trace
Times(stage) == Cardinality({n \in 1..Len(trace) : trace[n] = stage})

\* C15: no partial report.  A request to /api/compare is answered once,
\* when its handler ends, and not before; the answer is either status 200
\* with a body of exactly the six report fields, or status 500 with a body
\* of an error message alone; a handler that has not answered is at one
\* of its stages and can take a step (at the join: the join runs or its
\* failure is answered; the diff has no condition) and one that has
\* answered takes none; after a stage has failed the answer is the error,
\* no later stage has run, and no stage has run twice.
NoPartialReport ==
    IsCompare =>
        /\ ~Answered =>
              /\ response = NoResponse
              /\ pc \in {"start", "read1", "read2", "close", "rename", "keys",
                         "merge", "diff", "report"}
        /\ (~Answered /\ pc \notin {"merge", "diff"}) => ENABLED Next
        /\ pc = "merge" => (ENABLED MergeFails \/ ~MergeRaises(df1, df2_renamed, join_keys))
        /\ Answered => ~ENABLED Next
        /\ pc = "done" =>
              /\ response.status = 200
              /\ DOMAIN response.body = ReportFields
              /\ "raise" \notin Range(trace)
        /\ pc = "failed" =>
              /\ response.status = 500
              /\ DOMAIN response.body = {"error"}
              /\ trace[Len(trace)] = "raise"
        /\ "raise" \in Range(trace) => pc = "failed"
        /\ \A n \in 1..Len(trace) : Times(trace[n]) = 1

\* C15 witness: an error answer after the first query has run and the
\* second has failed
NoPartialWitness ==
    /\ IsCompare
    /\ pc = "failed"
    /\ "read_sql1" \in Range(trace)
    /\ "read_sql2" \notin Range(trace)
    /\ df1.rows # <<>>
    /\ DOMAIN response.body = {"error"}

-----------------------------------------------------------------------------
\* some row of a side has no value in a join-key column
NullKeyInInputs ==
    \/ \E i \in 1..Len(df1.rows) : NullKey(df1.rows[i])
    \/ \E j \in 1..Len(df2_renamed.rows) : NullKey(df2_renamed.rows[j])

\* C16: a row missing a key value is a failure.  Once the join keys are
\* chosen, with a row of either side that has a null in a join-key column
\* the join does not run, no entry of any category is made for any row,
\* and the answer is an error and no report.
NullKeyIsFailure ==
    (Keyed /\ NullKeyInInputs) =>
        /\ pc \in {"merge", "failed"}
        /\ merged = <<>>
        /\ response.status # 200
        /\ pc = "failed" => DOMAIN response.body = {"error"}

-----------------------------------------------------------------------------
\* s without its n-th element
Without(s, n) == SubSeq(s, 1, n - 1) \o SubSeq(s, n + 1, Len(s))

\* the pairs whose left name, the name the rename looks up, is no column
\* of the right result set
Unapplicable ==
    {n \in 1..Len(request.mappings) : request.mappings[n].left \notin Range(df2.columns)}

\* the report of the comparison of left and right under the mappings mp
ReportUnder(left, right, mp, pk) ==
    LET renamed == rename(right, build_mapping_dict(mp))
        common == CommonColumns(left, renamed)
        keys == JoinKeys(pk, common)
        m == merge(left, renamed, keys)
    IN  build_report(left, right, common, m,
                     find_mismatches(Category(m, "both"), common, keys))

\* C17: unapplicable mapping pairs are silently ignored.  A pair whose
\* left name is no column of the right result set raises nothing and
\* renames nothing: the rename runs, the renamed right schema has the
\* columns of the right result set, each under its own name unless it is
\* the left name of a pair, and the renamed frame, the shared columns, the
\* join keys and the report are those of the mapping without that pair.
UnapplicableIgnored ==
    (IsCompare /\ ~MappingRaises(request.mappings) /\ "read_sql2" \in Range(trace)) =>
        \A n \in Unapplicable :
            LET rest == Without(request.mappings, n)
                alt == rename(df2, build_mapping_dict(rest))
            IN  /\ pc = "rename" => ENABLED RenameColumns
                /\ Mapped =>
                      /\ Len(df2_renamed.columns) = Len(df2.columns)
                      /\ \A p \in 1..Len(df2.columns) :
                            (\A m \in Mappings : m.left # df2.columns[p]) =>
                                df2_renamed.columns[p] = df2.columns[p]
                      /\ Cardinality(Unapplicable) = Len(request.mappings) =>
                            df2_renamed = df2
                      /\ df2_renamed = alt
                /\ Keyed =>
                      /\ common_columns = CommonColumns(df1, alt)
                      /\ join_keys = JoinKeys(request.primary_keys, CommonColumns(df1, alt))
                /\ Reported =>
                      response.body = ReportUnder(df1, df2, rest, request.primary_keys)

\* C17 witness: a report under a pair that renamed a column and a pair
\* that names no column of the right result set, with a matched pair
UnapplicableWitness ==
    /\ Reported
    /\ Unapplicable # {}
    /\ Cardinality(Unapplicable) < Len(request.mappings)
    /\ df2_renamed.columns # df2.columns
    /\ response.body.summary.matches >= 1

-----------------------------------------------------------------------------
\* the shared columns that are no join key
ComparedColumns == Range(common_columns) \ Range(join_keys)

\* a mismatch record under the key of entry e names column c
RecordedDiff(e, c) ==
    \E n \in 1..Len(mismatches) :
        /\ \A k \in Range(join_keys) : mismatches[n].key[k] = merged[e].row[k]
        /\ c \in DOMAIN mismatches[n].differences

\* C18: null is an absence marker distinct from every text.  After the
\* diff, with keys unique on each side: a matched pair with a null on one
\* side and a text (the text None among them) on the other side of a
\* shared non-key column has a mismatch record that names the column, and
\* a matched pair with a null on both sides of the column has none.
NullDistinctFromText ==
    (pc \in {"report", "done"} /\ UniqueKeys(df1) /\ UniqueKeys(df2_renamed)) =>
        \A e \in Both : \A c \in ComparedColumns :
            LET a == Get(df1.rows[merged[e].l], c)
                b == Get(df2_renamed.rows[merged[e].r], c)
            IN  /\ ((IsNull(a) /\ b.t = "str") \/ (a.t = "str" /\ IsNull(b))) =>
                      RecordedDiff(e, c)
                /\ (IsNull(a) /\ IsNull(b)) => ~RecordedDiff(e, c)

-----------------------------------------------------------------------------
\* C19: numerically equal values of different numeric types are no
\* mismatch.  After the diff, with keys unique on each side: a matched
\* pair with an integer n on one side and the float n on the other side
\* of a shared non-key column has no mismatch record that names the
\* column, with or without left-only and right-only rows in the join.
NumericTypesNotMismatched ==
    (pc \in {"report", "done"} /\ UniqueKeys(df1) /\ UniqueKeys(df2_renamed)) =>
        \A e \in Both : \A c \in ComparedColumns :
            LET a == Get(df1.rows[merged[e].l], c)
                b == Get(df2_renamed.rows[merged[e].r], c)
            IN  (IsNumber(a) /\ IsNumber(b) /\ a.t # b.t /\ a.n = b.n) =>
                    ~RecordedDiff(e, c)

-----------------------------------------------------------------------------
\* C20: every database connection that is opened is closed.  When a
\* request to /api/compare or to /api/execute-query has been answered, its
\* connection is not open: it was never opened, or it has been closed;
\* and it is answered with its connection closed also when the first or
\* the second query has raised.
ConnectionsAreClosed ==
    /\ pc \in {"done", "failed", "exec_done"} => conn # "open"
    /\ (response # NoResponse /\ executed # <<>>) => conn = "closed"

-----------------------------------------------------------------------------
\* The session's connection parameters

IsTest(e) == e.endpoint = "/api/test-connection"

\* the parameters the session holds after the requests h: the payload of
\* the last /api/test-connection, None when there was none
StoredAfter(h) ==
    LET tests == SelectSeq(h, IsTest)
    IN  IF tests = <<>> THEN None ELSE tests[Len(tests)].payload

\* the requests whose effect on the session has taken place: all but a
\* /api/test-connection that has been received and has stored nothing yet
Settled == IF pc = "test_store" THEN Prefix(history, Len(history) - 1) ELSE history

\* the handler being served is one of the two that run queries
RunsQueries == history # <<>> /\ ~IsTest(history[Len(history)])

\* C21: in a session, the stored parameters are the payload of the most
\* recent /api/test-connection, whether its test succeeded or reported an
\* error; every /api/compare and /api/execute-query that connects does so
\* with the parameters stored by the most recent /api/test-connection before
\* it; and before any /api/test-connection such a request connects with no
\* parameters, executes no query and answers with an error.
SessionFollowsLastTest ==
    /\ session = StoredAfter(Settled)
    /\ \A i \in 1..Len(history) :
          history[i].connected # NoCall
          => history[i].connected = StoredAfter(Prefix(history, i))
    /\ (RunsQueries /\ conn = "open") => history[Len(history)].connected = session
    /\ (RunsQueries /\ StoredAfter(history) = None)
       => /\ executed = <<>>
          /\ conn = "none"
          /\ pc # "done"
          /\ pc \in {"failed", "exec_done"} => response.status \in {400, 500}

\* a test that reported an error has replaced parameters that worked, and
\* the comparison after it failed to connect with the replaced ones; the
\* session's first request, before any test, was answered with an error
FailedTestOverwrites ==
    /\ Len(history) = 4
    /\ history[1] = [endpoint |-> "/api/execute-query", payload |-> None,
                     connected |-> None]
    /\ history[2] = [endpoint |-> "/api/test-connection",
                     payload |-> Params("db1"), connected |-> Params("db1")]
    /\ history[3] = [endpoint |-> "/api/test-connection",
                     payload |-> Params("nowhere"), connected |-> Params("nowhere")]
    /\ history[4] = [endpoint |-> "/api/compare", payload |-> None,
                     connected |-> Params("nowhere")]
    /\ session = Params("nowhere")
    /\ pc = "failed"
    /\ response = ErrorResponse("Connection failed")
    /\ executed = <<>>

====
